---- MODULE Spec2Model ----
(***************************************************************************)
(* PySPOD: the block planner and windowed DFT stage of Standard            *)
(* (pyspod/spod/standard.py), the fit drivers of Standard and SPOD_low_ram *)
(* with their on-disk block cache, the eigenvalue ordering of              *)
(* _compute_standard_spod, and the set-up of POD_standard                  *)
(* (pyspod/auxiliary/pod_standard.py).                                     *)
(*                                                                         *)
(* Fourier coefficients are kept symbolically: a coefficient records which *)
(* samples went into the block, the frequency bin, the mean and            *)
(* normalisation policy and the one-sided factor (1 or 2) applied to it.   *)
(***************************************************************************)
EXTENDS Integers, Sequences, FiniteSets, TLC

\* ------------------------------------------------------------------ bounds
\* longest time series of the block-planner specification (SpecBlocks)
MaxNt == 8
\* longest time series of a fit session with a block cache (Spec)
MaxNtFit == 3
\* largest number of spatial points of a session
MaxNx == 2
\* largest n_modes_save a session is configured with
MaxModes == 2
\* longest eigenvalue list, and largest eigenvalue magnitude (SpecEig)
MaxEig == 3
MaxMag == 2
\* largest size of a supplied weights array (SpecPOD)
MaxW == 3
\* longest data array and largest sample value given to POD_standard
MaxLen == 2
MaxVal == 1
\* largest time index asked of the data handler (SpecHandler)
MaxT == 3
\* number of ranks, and longest time series, of a distributed fit (SpecMPI)
NRanks == 2
MaxNtPar == 2

\* ------------------------------------------------------- program constants
\* 'n_variables' of the test configuration
nv == 1

MeanTypes == {"longtime", "blockwise", "zero"}
Engines == {"standard", "low_ram"}
\* the mean-removal and normalisation policies the fits of a session choose from
Policies == {[mean |-> "longtime", norm |-> FALSE],
             [mean |-> "blockwise", norm |-> FALSE],
             [mean |-> "longtime", norm |-> TRUE]}

VARIABLES
    \* the data and the engine of a session
    engine, comm, nx, nt, n_dft, n_overlap, isrealx, param_n_modes_save,
    \* the configuration of the current fit
    reuse_blocks, savefft, fullspectrum, mean_type, normalize_data,
    n_modes_save, n_blocks, n_freq,
    \* the progress of the current fit
    pc, blocks_present, i_blk, offset, blk_rows, kept, doubled, Q_hat,
    computed, i_freq, err,
    \* durable storage: the block cache and the mode artifacts
    cache, modes,
    \* history: the cache as the fit found it, and the results of the
    \* preceding fit when the current one repeats it with reuse_blocks
    cache0, first,
    \* the eigenvalue stage
    L, eigs,
    \* POD_standard
    pod_pc, weights_tmp, normalize_weights, weights, weights_name,
    dir_made, processed,
    \* POD_standard: the handler in use, the caller's arrays (fit data and
    \* held-out data) as they are and as they were handed over, the means
    \* removed at fit and at projection and the mean added at reconstruction,
    \* and the last request to the data handler with its result
    handler, data, data0, held, held0, fit_mean, proj_mean, added_mean,
    t_0, t_end, fetched,
    \* a distributed fit: per rank its position, the blocks and frequencies
    \* it has finished and whether it has failed; the artifacts on the shared
    \* disk; per rank its Gram-matrix contribution, the all-reduce buffers,
    \* the reduced matrix a rank received and the one it decomposed; and the
    \* cache reads that came before the write
    rpc, rblk, rfreq, rfailed, disk, Mloc, red, Mred, eigM, early

sessVars == <<engine, comm, nx, nt, n_dft, n_overlap, isrealx,
             param_n_modes_save>>
cfgVars == <<reuse_blocks, savefft, fullspectrum, mean_type, normalize_data,
             n_modes_save, n_blocks, n_freq>>
blkVars == <<offset, blk_rows, kept, doubled>>
runVars == <<pc, blocks_present, i_blk, Q_hat, computed, i_freq, err>>
diskVars == <<cache, modes>>
histVars == <<cache0, first>>
eigVars == <<L, eigs>>
wgtVars == <<weights_tmp, normalize_weights, weights, weights_name, dir_made>>
arrVars == <<handler, data, data0, held, held0>>
meanVars == <<fit_mean, proj_mean, added_mean>>
getVars == <<t_0, t_end, fetched>>
podVars == <<pod_pc, processed, wgtVars, arrVars, meanVars, getVars>>
mpiVars == <<rpc, rblk, rfreq, rfailed, disk, Mloc, red, Mred, eigM, early>>
vars == <<sessVars, cfgVars, blkVars, runVars, diskVars, histVars, eigVars,
          podVars, mpiVars>>

Ranks == 0..(NRanks - 1)

\* ----------------------------------------------------------------- helpers
Min(a, b) == IF a < b THEN a ELSE b
Max(a, b) == IF a > b THEN a ELSE b
Abs(a) == IF a < 0 THEN 0 - a ELSE a

\* One bound of a Python slice over a sequence of length n: a negative bound
\* counts from the end, and either is clamped to 0..n.
SliceBound(a, n) == IF a < 0 THEN Max(a + n, 0) ELSE Min(a, n)

\* The indices selected by x[a:b] over a sequence of length n.
PySlice(a, b, n) == {i \in 0..(n - 1) : SliceBound(a, n) <= i /\ i < SliceBound(b, n)}

\* numpy's reshape of an array of `size` elements to the shape `dims` (a
\* sequence, -1 for at most one inferred dimension): whether it succeeds.
RECURSIVE Prod(_)
Prod(dims) == IF dims = <<>> THEN 1
              ELSE (IF Head(dims) = -1 THEN 1 ELSE Head(dims)) * Prod(Tail(dims))
ReshapeOk(size, dims) ==
    LET known == Prod(dims)
        free == \E i \in 1..Len(dims) : dims[i] = -1
    IN IF free THEN known > 0 /\ size % known = 0 ELSE size = known

NoFiles == [key \in {} |-> 0]
NoFirst == [valid |-> FALSE, Q_hat |-> NoFiles, modes |-> NoFiles]

\* ------------------------------------------------------- the block planner
\* Base._initialize: the number of blocks.
NBlocks(ntot, ndft, novlp) == (ntot - novlp) \div (ndft - novlp)

\* Base._initialize: n_modes_save as the engine holds it, never more than the
\* number of blocks (the modes that exist).
ClampModes(nsave, nb) == IF nsave > nb THEN nb ELSE nsave

\* Base._initialize: the number of retained frequency bins.
NFreq(ndft, full) == IF full THEN ndft ELSE (ndft \div 2) + 1

OffsetNoShift(i, ndft, novlp, ntot) == Min(i * (ndft - novlp) + ndft, ntot)
OffsetRightAligned(i, ndft, novlp, ntot) ==
    IF i + 1 = NBlocks(ntot, ndft, novlp) THEN ntot - ndft
    ELSE Min(i * (ndft - novlp) + ndft, ntot) - ndft
\* _compute_blocks: the time index at which block i starts.
Offset(i, ndft, novlp, ntot) == Min(i * (ndft - novlp) + ndft, ntot) - ndft

\* A Fourier coefficient of one block at one frequency bin.
Coef(rows, k, mean, norm, mult) ==
    [rows |-> rows, k |-> k, mean |-> mean, norm |-> norm, mult |-> mult]

\* _compute_blocks: the bins of the retained spectrum that are doubled.
OneSided(real, nkept) == IF real THEN PySlice(1, -1, nkept) ELSE {}

\* _compute_blocks(i_blk): the offset, the samples of the block, whether the
\* reshape to n_dft rows succeeds, and the coefficient of every retained bin.
ComputeBlocks(i) ==
    LET off == Offset(i, n_dft, n_overlap, nt)
        rows == PySlice(off, n_dft + off, nt)
        bins == PySlice(0, n_freq, n_dft)
        dbl == OneSided(isrealx, Cardinality(bins))
    IN [offset |-> off, rows |-> rows, ok |-> Cardinality(rows) = n_dft,
        kept |-> bins, doubled |-> dbl,
        hat |-> [k \in bins |-> Coef(rows, k, mean_type, normalize_data,
                                     IF k \in dbl THEN 2 ELSE 1)]]

\* ------------------------------------------------------- the block cache
Keys(nb, nf) == (0..(nb - 1)) \X (0..(nf - 1))

\* Base._are_blocks_present: every entry of the configuration exists.
AreBlocksPresent(files, nb, nf) == Keys(nb, nf) \subseteq DOMAIN files

\* The cache after the coefficients `hat` of block b are saved under the
\* keys (b, 0) .. (b, nf-1); an existing file is overwritten.
SaveBlock(files, b, nf, hat) ==
    [key \in DOMAIN files \cup ({b} \X (0..(nf - 1))) |->
        IF key[1] = b /\ key[2] \in 0..(nf - 1) THEN hat[key[2]] ELSE files[key]]

\* Q_hat[:, :, b] = Q_blk_hat
StoreBlock(q, b, hat) ==
    [key \in DOMAIN q \cup ({b} \X DOMAIN hat) |->
        IF key[1] = b /\ key[2] \in DOMAIN hat THEN hat[key[2]] ELSE q[key]]

\* ---------------------------------------------------------- mode artifacts
\* The columns of one frequency's ensemble, block by block.
EnsembleAt(q, f, nb) == [b \in 0..(nb - 1) |-> q[<<b, f>>]]

\* The shape Standard._compute_standard_spod gives phi before saving it; the
\* largest spatial axis is left to numpy when a communicator is attached.
ModeShape(par, npts, nvar, nsave) ==
    <<IF par THEN -1 ELSE npts, nvar, nsave>>

\* phi[..., 0:n_modes_save] of the n_blocks columns of phi.
ModeColsAll(nsave, nb) == nb
ModeCols(nsave, nb) == Cardinality(PySlice(0, nsave, nb))

\* The artifact of one frequency: the number of modes its shape declares, the
\* number of mode columns computed, and the ensemble they were formed from.
Artifact(declared, cols, ens) == [n_modes |-> declared, cols |-> cols, ens |-> ens]

\* ------------------------------------------------------------ fit: set-up
IdleBlk == offset = 0 /\ blk_rows = {} /\ kept = {} /\ doubled = {}
IdleEig == L = <<>> /\ eigs = <<>>
NoMean == <<0, 0>>
NoFetch == [raised |-> "none", idx |-> <<>>, rows |-> <<>>, view |-> FALSE]
IdleArr ==
    /\ handler = "default" /\ data = <<>> /\ data0 = <<>>
    /\ held = <<>> /\ held0 = <<>>
IdleMean == fit_mean = NoMean /\ proj_mean = NoMean /\ added_mean = NoMean
IdleGet == t_0 = 0 /\ t_end = 0 /\ fetched = NoFetch
IdlePod ==
    /\ pod_pc = "none" /\ weights_tmp = [kind |-> "none", size |-> 0]
    /\ normalize_weights = FALSE /\ weights = 0 /\ weights_name = "unset"
    /\ dir_made = FALSE /\ processed = FALSE
    /\ IdleArr /\ IdleMean /\ IdleGet

NoM == [rank |-> 0 - 1, freq |-> 0 - 1]
\* No distributed fit is running.
IdleMpi ==
    /\ rpc = [r \in Ranks |-> "done"] /\ rblk = [r \in Ranks |-> 0]
    /\ rfreq = [r \in Ranks |-> 0] /\ rfailed = [r \in Ranks |-> FALSE]
    /\ disk = {} /\ Mloc = [r \in Ranks |-> NoM] /\ red = <<>>
    /\ Mred = [r \in Ranks |-> {}] /\ eigM = [r \in Ranks |-> {}]
    /\ early = {}

\* No fit has been started: nothing is configured, computed or stored.
NotFitted ==
    /\ reuse_blocks = FALSE /\ savefft = FALSE /\ fullspectrum = FALSE
    /\ mean_type = "longtime" /\ normalize_data = FALSE
    /\ n_modes_save = param_n_modes_save /\ n_blocks = 0 /\ n_freq = 0
    /\ pc = "idle" /\ blocks_present = FALSE /\ i_blk = 0 /\ i_freq = 0
    /\ Q_hat = NoFiles /\ computed = {} /\ err = "none"
    /\ cache = NoFiles /\ modes = NoFiles
    /\ cache0 = NoFiles /\ first = NoFirst

\* The variables of a fit session, where a specification does not use them.
NoSession ==
    /\ engine = "standard" /\ comm = FALSE /\ n_dft = 1 /\ n_overlap = 0
    /\ isrealx = TRUE /\ param_n_modes_save = 1

\* A session: an engine class, a data set and a block geometry; nothing has
\* been fitted and the result directory does not exist.
Init ==
    /\ engine \in Engines
    /\ comm \in (IF engine = "standard" THEN BOOLEAN ELSE {FALSE})
    /\ nx \in 1..MaxNx
    /\ nt \in 1..MaxNtFit
    /\ n_dft \in 1..nt
    /\ n_overlap \in 0..(n_dft - 1)
    /\ isrealx \in BOOLEAN
    /\ param_n_modes_save \in 1..MaxModes
    /\ NotFitted /\ IdleBlk /\ IdleEig /\ IdlePod
    /\ IdleMpi

\* Whether the fit about to start repeats the fit just completed, the same
\* configuration but for reuse_blocks, which was off and is now on.
Repeats(reuse, save, full, policy) ==
    /\ pc = "done" /\ ~reuse_blocks /\ reuse
    /\ save = savefft /\ full = fullspectrum /\ policy.mean = mean_type
    /\ policy.norm = normalize_data

ProbeAlways(reuse, files, nb, nf) == reuse
ProbeMatching(reuse, files, nb, nf) ==
    /\ reuse /\ Keys(nb, nf) \subseteq DOMAIN files
    /\ \A key \in Keys(nb, nf) :
          files[key].mean = mean_type' /\ files[key].norm = normalize_data'
ProbeNever(reuse, files, nb, nf) == FALSE
\* fit: blocks_present, probed only when reuse_blocks is set.
Probe(reuse, files, nb, nf) ==
    IF reuse THEN AreBlocksPresent(files, nb, nf) ELSE FALSE

\* A new engine object is configured and fit(data, nt) is called on it:
\* _initialize, then the probe of the block cache.
FitStart(reuse, save, full, policy) ==
    /\ pc \in {"idle", "done", "failed"}
    /\ first' = IF Repeats(reuse, save, full, policy)
                THEN [valid |-> TRUE, Q_hat |-> Q_hat, modes |-> modes]
                ELSE NoFirst
    /\ reuse_blocks' = reuse /\ savefft' = save /\ fullspectrum' = full
    /\ mean_type' = policy.mean /\ normalize_data' = policy.norm
    /\ n_modes_save' = ClampModes(param_n_modes_save,
                                  NBlocks(nt, n_dft, n_overlap))
    /\ n_blocks' = NBlocks(nt, n_dft, n_overlap)
    /\ n_freq' = NFreq(n_dft, full)
    /\ blocks_present' = Probe(reuse, cache, NBlocks(nt, n_dft, n_overlap),
                               NFreq(n_dft, full))
    /\ pc' = IF ~blocks_present' THEN "dft"
             ELSE IF engine = "standard" THEN "load" ELSE "spod"
    /\ i_blk' = 0 /\ i_freq' = 0 /\ Q_hat' = NoFiles /\ computed' = {}
    /\ err' = "none" /\ modes' = NoFiles /\ cache0' = cache
    /\ offset' = 0 /\ blk_rows' = {} /\ kept' = {} /\ doubled' = {}
    /\ UNCHANGED <<sessVars, mpiVars, cache, eigVars, podVars>>

\* ------------------------------------------------------ fit: the DFT phase
\* Standard.fit, blocks present: every entry is loaded into Q_hat.
StdLoadBlocks ==
    /\ engine = "standard" /\ pc = "load"
    /\ IF Keys(n_blocks, n_freq) \subseteq DOMAIN cache
       THEN /\ Q_hat' = [key \in Keys(n_blocks, n_freq) |-> cache[key]]
            /\ pc' = "spod" /\ err' = "none"
       ELSE /\ Q_hat' = Q_hat /\ pc' = "failed" /\ err' = "load"
    /\ UNCHANGED <<sessVars, mpiVars, cfgVars, blkVars, blocks_present, i_blk, computed,
                   i_freq, diskVars, histVars, eigVars, podVars>>

StdSavesNever(flag) == FALSE
\* Standard.fit: a computed block is written to the cache only with savefft.
StdSaves(flag) == flag = TRUE

\* Standard.fit, blocks not present: block i_blk is computed, saved when
\* savefft is set, and stored in Q_hat.
StdComputeBlock ==
    /\ engine = "standard" /\ pc = "dft" /\ i_blk < n_blocks
    /\ LET r == ComputeBlocks(i_blk) IN
       /\ computed' = computed \cup {i_blk}
       /\ offset' = r.offset /\ blk_rows' = r.rows
       /\ IF r.ok /\ ReshapeOk(nx * nv, <<IF comm THEN -1 ELSE nx>>)
          THEN /\ kept' = r.kept /\ doubled' = r.doubled
               /\ cache' = IF StdSaves(savefft)
                           THEN SaveBlock(cache, i_blk, n_freq, r.hat)
                           ELSE cache
               /\ Q_hat' = StoreBlock(Q_hat, i_blk, r.hat)
               /\ i_blk' = i_blk + 1
               /\ pc' = IF i_blk + 1 = n_blocks THEN "spod" ELSE "dft"
               /\ err' = "none"
          ELSE /\ pc' = "failed" /\ err' = "reshape"
               /\ UNCHANGED <<kept, doubled, cache, Q_hat, i_blk>>
    /\ UNCHANGED <<sessVars, mpiVars, cfgVars, blocks_present, i_freq, modes, histVars,
                   eigVars, podVars>>

\* SPOD_low_ram.fit: rank 0 writes every computed block to the cache.
LowRamSaves(rank) == rank = 0

\* SPOD_low_ram.fit, blocks not present: block i_blk is computed and written
\* to the cache (the run is serial: rank 0); nothing is kept in memory.
LowRamComputeBlock ==
    /\ engine = "low_ram" /\ pc = "dft" /\ i_blk < n_blocks
    /\ LET r == ComputeBlocks(i_blk) IN
       /\ computed' = computed \cup {i_blk}
       /\ offset' = r.offset /\ blk_rows' = r.rows
       /\ IF r.ok
          THEN /\ kept' = r.kept /\ doubled' = r.doubled
               /\ cache' = IF LowRamSaves(0)
                           THEN SaveBlock(cache, i_blk, n_freq, r.hat)
                           ELSE cache
               /\ i_blk' = i_blk + 1
               /\ pc' = IF i_blk + 1 = n_blocks THEN "spod" ELSE "dft"
               /\ err' = "none"
          ELSE /\ pc' = "failed" /\ err' = "reshape"
               /\ UNCHANGED <<kept, doubled, cache, i_blk>>
    /\ UNCHANGED <<sessVars, mpiVars, cfgVars, blocks_present, Q_hat, i_freq, modes,
                   histVars, eigVars, podVars>>

\* ----------------------------------------------------- fit: the SPOD phase
\* Standard._compute_standard_spod, frequency i_freq: phi is formed from
\* Q_hat[f], cut to n_modes_save columns, reshaped and saved.
StdSpodFreq ==
    /\ engine = "standard" /\ pc = "spod" /\ i_freq < n_freq
    /\ LET cols == ModeCols(n_modes_save, n_blocks)
           shape == ModeShape(comm, nx, nv, n_modes_save)
       IN IF ReshapeOk(nx * nv * cols, shape)
          THEN /\ modes' = [f \in DOMAIN modes \cup {i_freq} |->
                              IF f = i_freq
                              THEN Artifact(n_modes_save, cols,
                                            EnsembleAt(Q_hat, i_freq, n_blocks))
                              ELSE modes[f]]
               /\ i_freq' = i_freq + 1
               /\ pc' = IF i_freq + 1 = n_freq THEN "done" ELSE "spod"
               /\ err' = "none"
          ELSE /\ pc' = "failed" /\ err' = "reshape"
               /\ UNCHANGED <<modes, i_freq>>
    /\ UNCHANGED <<sessVars, mpiVars, cfgVars, blkVars, blocks_present, i_blk, Q_hat,
                   computed, cache, histVars, eigVars, podVars>>

\* SPOD_low_ram.fit, frequency i_freq: the ensemble is loaded from the cache,
\* block by block, and compute_standard_spod persists its modes.
LowRamSpodFreq ==
    /\ engine = "low_ram" /\ pc = "spod" /\ i_freq < n_freq
    /\ IF (0..(n_blocks - 1)) \X {i_freq} \subseteq DOMAIN cache
       THEN LET cols == Min(n_modes_save, n_blocks)
                q == [key \in DOMAIN Q_hat \cup ((0..(n_blocks - 1)) \X {i_freq}) |->
                        IF key[2] = i_freq THEN cache[key] ELSE Q_hat[key]]
            IN /\ Q_hat' = q
               /\ modes' = [f \in DOMAIN modes \cup {i_freq} |->
                              IF f = i_freq
                              THEN Artifact(cols, cols,
                                            EnsembleAt(q, i_freq, n_blocks))
                              ELSE modes[f]]
               /\ i_freq' = i_freq + 1
               /\ pc' = IF i_freq + 1 = n_freq THEN "done" ELSE "spod"
               /\ err' = "none"
       ELSE /\ pc' = "failed" /\ err' = "load"
            /\ UNCHANGED <<Q_hat, modes, i_freq>>
    /\ UNCHANGED <<sessVars, mpiVars, cfgVars, blkVars, blocks_present, i_blk,
                   computed, cache, histVars, eigVars, podVars>>

Next ==
    \/ \E reuse \in BOOLEAN, full \in BOOLEAN, policy \in Policies,
          save \in (IF engine = "standard" THEN BOOLEAN ELSE {FALSE}) :
          FitStart(reuse, save, full, policy)
    \/ StdLoadBlocks
    \/ StdComputeBlock
    \/ LowRamComputeBlock
    \/ StdSpodFreq
    \/ LowRamSpodFreq

Spec == Init /\ [][Next]_vars

\* ------------------------------------------- the DFT stage on its own
\* A Standard engine after _initialize, about to compute its blocks, for
\* every block geometry up to MaxNt samples.
InitBlocks ==
    /\ engine = "standard" /\ comm = FALSE /\ nx = 1
    /\ nt \in 1..MaxNt
    /\ n_dft \in 1..nt
    /\ n_overlap \in 0..(n_dft - 1)
    /\ isrealx \in BOOLEAN
    /\ fullspectrum \in BOOLEAN
    /\ mean_type \in MeanTypes /\ normalize_data \in BOOLEAN
    /\ reuse_blocks = FALSE /\ savefft = FALSE
    /\ param_n_modes_save = 1 /\ n_modes_save = 1
    /\ n_blocks = NBlocks(nt, n_dft, n_overlap)
    /\ n_freq = NFreq(n_dft, fullspectrum)
    /\ pc = "dft" /\ blocks_present = FALSE /\ i_blk = 0 /\ i_freq = 0
    /\ Q_hat = NoFiles /\ computed = {} /\ err = "none"
    /\ cache = NoFiles /\ modes = NoFiles
    /\ cache0 = NoFiles /\ first = NoFirst
    /\ IdleBlk /\ IdleEig /\ IdlePod
    /\ IdleMpi

NextBlocks == StdComputeBlock

SpecBlocks == InitBlocks /\ [][NextBlocks]_vars

\* The block computed last is the final one of the series.
LastBlockComputed == computed # {} /\ i_blk = n_blocks

\* C1: every block the planner lays out starts at offset >= 0, ends inside
\* the series, holds exactly n_dft consecutive samples, and the first
\* block starts at offset 0.
C1_BlocksInsideSeries ==
    computed # {} =>
        /\ err = "none"
        /\ offset >= 0 /\ offset + n_dft <= nt
        /\ blk_rows = offset..(offset + n_dft - 1)
        /\ Cardinality(blk_rows) = n_dft
        /\ (computed = {0} => offset = 0)

C1_Witness ==
    /\ LastBlockComputed /\ n_blocks >= 3 /\ n_overlap >= 1
    /\ offset + n_dft < nt

\* C2 as stated: the last block ends at time index nt-1.
C2_LastBlockEndsAtNt == LastBlockComputed => offset + n_dft - 1 = nt - 1

\* C2 as amended: the last block ends at n_blocks*(n_dft-n_overlap) +
\* n_overlap - 1, which is at most nt-1 and equals nt-1 exactly when
\* n_dft-n_overlap divides nt-n_overlap.
C2_LastBlockEnd ==
    LastBlockComputed =>
        /\ offset + n_dft - 1 = n_blocks * (n_dft - n_overlap) + n_overlap - 1
        /\ offset + n_dft - 1 <= nt - 1
        /\ (offset + n_dft - 1 = nt - 1
              <=> (nt - n_overlap) % (n_dft - n_overlap) = 0)

C2_Witness == LastBlockComputed /\ n_blocks >= 2 /\ offset + n_dft - 1 < nt - 1

\* C6: without full-spectrum mode the n_freq = floor(n_dft/2)+1 first bins
\* are retained; for real input bin k is doubled exactly when it is neither
\* the DC bin nor the Nyquist bin (k = n_dft/2, n_dft even), and for complex
\* input no bin is doubled.
C6_OneSidedDoubling ==
    (computed # {} /\ err = "none" /\ ~fullspectrum) =>
        /\ kept = 0..(n_dft \div 2)
        /\ doubled = IF isrealx
                     THEN {k \in kept : k # 0 /\ ~(n_dft % 2 = 0 /\ 2 * k = n_dft)}
                     ELSE {}

\* C7: in full-spectrum mode all n_dft bins are retained and none is doubled,
\* whether the data is real or complex.
C7_FullSpectrumNoDoubling ==
    (computed # {} /\ err = "none" /\ fullspectrum) =>
        /\ kept = 0..(n_dft - 1)
        /\ doubled = {}

\* ------------------------------------------------ claims on the fit drivers
\* What a fit of the current configuration computes for every key when it
\* takes the compute path (reuse_blocks off).
FreshEnsembles ==
    [key \in Keys(n_blocks, n_freq) |-> ComputeBlocks(key[1]).hat[key[2]]]

\* The cache the current fit found held every entry of its configuration.
FoundComplete == AreBlocksPresent(cache0, n_blocks, n_freq)

\* C3: a fit that repeats the preceding fit with reuse_blocks switched on ends
\* with the ensembles and the mode artifacts of that preceding fit.
C3_RerunSameEnsembles ==
    (pc = "done" /\ first.valid) =>
        /\ Q_hat = first.Q_hat
        /\ modes = first.modes

\* C8: a fit with reuse_blocks that found its cache complete computes no
\* block, and every coefficient of its ensembles is the cache entry of that
\* key; when it is done it holds one for every key.
C8_ReuseSkipsDft ==
    (pc # "idle" /\ reuse_blocks /\ FoundComplete) =>
        /\ computed = {}
        /\ pc # "dft"
        /\ cache = cache0
        /\ \A key \in DOMAIN Q_hat : Q_hat[key] = cache0[key]
        /\ (pc = "done" => DOMAIN Q_hat = Keys(n_blocks, n_freq))

C8_Witness ==
    /\ pc = "done" /\ reuse_blocks /\ FoundComplete /\ n_blocks >= 2
    /\ \E key \in DOMAIN Q_hat : Q_hat[key].mean # mean_type

\* C9: a fit with reuse_blocks that found its cache empty or incomplete raises
\* no error, computes every block, and ends with the ensembles of a fit
\* without reuse_blocks.
C9_IncompleteCacheRecomputes ==
    (pc # "idle" /\ reuse_blocks /\ ~FoundComplete) =>
        /\ pc \notin {"failed", "load"} /\ err = "none"
        /\ (pc \in {"spod", "done"} => computed = 0..(n_blocks - 1))
        /\ (pc = "done" => Q_hat = FreshEnsembles)

C9_Witness ==
    /\ pc = "done" /\ reuse_blocks /\ cache0 # NoFiles /\ ~FoundComplete
    /\ \E key \in Keys(n_blocks, n_freq) : key \in DOMAIN cache0

\* C10: a completed fit has written one artifact for every frequency index
\* 0..n_freq-1 and no other, each holding min(n_modes_save, n_blocks) modes;
\* no fit fails, whether or not n_blocks < n_modes_save.
C10_ModesPerFrequency ==
    /\ pc # "failed"
    /\ pc = "done" =>
        /\ DOMAIN modes = 0..(n_freq - 1)
        /\ \A f \in DOMAIN modes :
              /\ modes[f].n_modes = Min(param_n_modes_save, n_blocks)
              /\ modes[f].cols = Min(param_n_modes_save, n_blocks)

C10_Witness ==
    /\ pc = "done" /\ engine = "standard" /\ n_blocks < param_n_modes_save
    /\ n_freq >= 2

\* C14 as stated: the block cache is append-once: no step of any fit removes
\* an entry that exists or changes what it holds.
C14_CacheAppendOnce ==
    [][\A key \in DOMAIN cache :
          key \in DOMAIN cache' /\ cache'[key] = cache[key]]_vars

\* C17 as stated: once a fit that took the compute path has computed its
\* blocks, the cache holds an entry for every key of its configuration.
C17_ComputePathFillsCache ==
    (pc \in {"spod", "done"} /\ ~blocks_present) =>
        AreBlocksPresent(cache, n_blocks, n_freq)

\* C17 as amended: the cache is complete after the compute path of
\* SPOD_low_ram, and of Standard when savefft is set, and then every entry
\* is the coefficient that fit computed; Standard without savefft leaves
\* the cache as it found it.
C17_SavingFitFillsCache ==
    (pc \in {"spod", "done"} /\ ~blocks_present) =>
        IF engine = "low_ram" \/ savefft
        THEN /\ AreBlocksPresent(cache, n_blocks, n_freq)
             /\ \A key \in Keys(n_blocks, n_freq) :
                   cache[key] = FreshEnsembles[key]
        ELSE cache = cache0

C17_Witness ==
    /\ pc = "done" /\ ~blocks_present /\ engine = "standard" /\ savefft
    /\ n_blocks >= 2 /\ cache0 = NoFiles

\* C18: whether a fit loads the cache is decided by reuse_blocks and by the
\* existence of every entry of (n_blocks, n_freq) alone; a fit that loads
\* computes no block and ends with the entries it found, unchanged, whatever
\* mean_type and normalize_data they were computed with.
C18_ReuseIgnoresPolicy ==
    pc # "idle" =>
        /\ blocks_present = (reuse_blocks /\ FoundComplete)
        /\ blocks_present =>
              /\ computed = {}
              /\ cache = cache0
              /\ (pc = "done" =>
                    Q_hat = [key \in Keys(n_blocks, n_freq) |-> cache0[key]])

C18_Witness ==
    /\ pc = "done" /\ blocks_present
    /\ \A key \in DOMAIN Q_hat :
          Q_hat[key].mean # mean_type /\ Q_hat[key].norm # normalize_data
    /\ Q_hat # FreshEnsembles

\* ------------------------------------------------- the eigenvalue stage
Perms(n) == {p \in [1..n -> 1..n] : \A i, j \in 1..n : p[i] = p[j] => i = j}

\* np.argsort: an order of the indices in which the values ascend.
ArgSort(s) ==
    CHOOSE p \in Perms(Len(s)) :
        \A i, j \in 1..Len(s) : i < j => s[p[i]] <= s[p[j]]

OrderAscending(s) == ArgSort(s)
\* _compute_standard_spod: idx = np.argsort(Lf)[::-1]
Order(s) == [i \in 1..Len(s) |-> ArgSort(s)[Len(s) + 1 - i]]

\* _compute_standard_spod: L[f,:] = L[f,idx], then self._eigs = np.abs(L)
Eigs(s) == [i \in 1..Len(s) |-> Abs(s[Order(s)[i]])]

\* The eigensolver has returned the (real) eigenvalues L of one frequency.
InitEig ==
    /\ L \in UNION {[1..n -> (0 - MaxMag)..MaxMag] : n \in 1..MaxEig}
    /\ eigs = <<>>
    /\ NoSession /\ nx = 1 /\ nt = 1
    /\ NotFitted /\ IdleBlk /\ IdlePod
    /\ IdleMpi

\* _compute_standard_spod: the eigenvalues are reordered and stored.
StoreEigs ==
    /\ eigs = <<>>
    /\ eigs' = Eigs(L)
    /\ UNCHANGED <<sessVars, mpiVars, cfgVars, blkVars, runVars, diskVars, histVars, L,
                   podVars>>

NextEig == StoreEigs

SpecEig == InitEig /\ [][NextEig]_vars

\* C5 as stated: the stored eigenvalues are non-negative and non-increasing,
\* whatever list the eigensolver returned.
C5_EigsNonIncreasing ==
    eigs # <<>> =>
        /\ \A i \in 1..Len(eigs) : eigs[i] >= 0
        /\ \A i, j \in 1..Len(eigs) : i < j => eigs[i] >= eigs[j]

\* C5 as amended: the stored eigenvalues are non-negative, and for every
\* tolerance tol >= 0, when no returned eigenvalue is below -tol no stored
\* value exceeds an earlier one by more than tol (tol = 0: non-increasing).
C5_EigsOrderedWithinTolerance ==
    eigs # <<>> =>
        /\ Len(eigs) = Len(L)
        /\ \A i \in 1..Len(eigs) : eigs[i] >= 0
        /\ \A tol \in 0..MaxMag :
              (\A i \in 1..Len(L) : L[i] >= 0 - tol) =>
                  \A i, j \in 1..Len(eigs) : i < j => eigs[j] <= eigs[i] + tol

C5_Witness ==
    /\ eigs # <<>> /\ Len(eigs) >= 3
    /\ \E i \in 1..Len(L) : L[i] = 0 - 1
    /\ \A i \in 1..Len(L) : L[i] >= 0 - 1
    /\ \E i, j \in 1..Len(L) : L[i] < L[j] /\ i < j

\* ---------------------------------------------------------- POD_standard
\* Sample values and means are rationals <<numerator, denominator>> in lowest
\* terms, the denominator positive.
RECURSIVE GCD(_, _)
GCD(a, b) == IF b = 0 THEN a ELSE GCD(b, a % b)
Rat(n, d) == LET g == GCD(Abs(n), d) IN <<n \div g, d \div g>>
RatAdd(a, b) == Rat(a[1] * b[2] + b[1] * a[2], a[2] * b[2])
RatSub(a, b) == Rat(a[1] * b[2] - b[1] * a[2], a[2] * b[2])
RECURSIVE RatSum(_)
RatSum(xs) == IF xs = <<>> THEN <<0, 1>> ELSE RatAdd(Head(xs), RatSum(Tail(xs)))

\* np.mean(X, axis=0)
Mean(xs) == LET t == RatSum(xs) IN Rat(t[1], t[2] * Len(xs))

\* The arrays a caller hands over: up to MaxLen snapshots of one spatial
\* point (every point is treated alike), with values 0..MaxVal.
Arrays == UNION {[1..n -> {<<v, 1>> : v \in 0..MaxVal}] : n \in 1..MaxLen}

HandlerKinds == {"default", "view"}

DataHandlerHalfOpen(kind, arr, t0, tend, n) ==
    LET ti == [i \in 1..(tend - t0) |-> t0 + i - 1]
    IN IF t0 > tend THEN [NoFetch EXCEPT !.raised = "ValueError"]
       ELSE IF t0 >= n THEN [NoFetch EXCEPT !.raised = "ValueError"]
       ELSE IF \E i \in 1..Len(ti) : ti[i] >= Len(arr)
       THEN [NoFetch EXCEPT !.raised = "IndexError"]
       ELSE [raised |-> "none", idx |-> ti,
             rows |-> [i \in 1..Len(ti) |-> arr[ti[i] + 1]],
             view |-> kind = "view"]
\* The data handler, data_handler(data, t_0, t_end, variables), of an object
\* fitted with nt = n: the default one of initialize_fit, which copies the
\* snapshots it selects (fancy indexing), or a caller's handler with the same
\* results that returns a view of the array.  Time indices count from 0.
DataHandler(kind, arr, t0, tend, n) ==
    LET ti == IF t0 = tend THEN <<t0>> ELSE [i \in 1..(tend - t0) |-> t0 + i - 1]
    IN IF t0 > tend THEN [NoFetch EXCEPT !.raised = "ValueError"]
       ELSE IF t0 >= n THEN [NoFetch EXCEPT !.raised = "ValueError"]
       ELSE IF \E i \in 1..Len(ti) : ti[i] >= Len(arr)
       THEN [NoFetch EXCEPT !.raised = "IndexError"]
       ELSE [raised |-> "none", idx |-> ti,
             rows |-> [i \in 1..Len(ti) |-> arr[ti[i] + 1]],
             view |-> kind = "view"]

\* reshape_and_remove_mean(data, nt): the centred snapshots, the mean that
\* was removed, and the caller's array after the call: the rows are centred
\* in place, in the caller's array when the handler returned a view of it.
ReshapeAndRemoveMean(kind, arr, n) ==
    LET got == DataHandler(kind, arr, 0, Len(arr), n)
        X_mean == Mean(got.rows)
        X == [i \in 1..Len(got.rows) |-> RatSub(got.rows[i], X_mean)]
    IN [X |-> X, X_mean |-> X_mean, source |-> IF got.view THEN X ELSE arr]

\* utils_weights.apply_normalization: the size of the weights it returns.
ApplyNormalization(size) == size

\* initialize_fit: the supplied weights are used (and checked) only when
\* they come as a dict.
IsDict(kind) == kind = "dict"

\* The parameters a POD_standard object is about to be constructed with, and
\* the data it will be fitted to.
InitPOD ==
    /\ nx \in 1..MaxNx
    /\ data \in Arrays /\ data0 = data /\ nt = Len(data)
    /\ handler \in HandlerKinds
    /\ held = <<>> /\ held0 = <<>>
    /\ weights_tmp \in {[kind |-> "none", size |-> 0]} \cup
                       [kind : {"dict", "ndarray"}, size : 0..MaxW]
    /\ normalize_weights \in BOOLEAN
    /\ pod_pc = "none" /\ weights = 0 /\ weights_name = "unset"
    /\ dir_made = FALSE /\ processed = FALSE
    /\ IdleMean /\ IdleGet
    /\ NoSession /\ NotFitted /\ IdleBlk /\ IdleEig
    /\ IdleMpi

\* POD_standard.__init__: the parameters are stored; nothing is checked.
PodConstruct ==
    /\ pod_pc = "none"
    /\ pod_pc' = "constructed"
    /\ UNCHANGED <<sessVars, mpiVars, cfgVars, blkVars, runVars, diskVars, histVars,
                   eigVars, processed, wgtVars, arrVars, meanVars, getVars>>

\* POD_standard.fit: initialize_fit (shape of the data, weights, result
\* directory), then the decomposition of the centred data.
PodFit ==
    /\ pod_pc = "constructed"
    /\ LET supplied == IsDict(weights_tmp.kind)
           w0 == IF supplied THEN weights_tmp.size ELSE nx * nv
           w1 == IF normalize_weights THEN ApplyNormalization(w0) ELSE w0
           r == ReshapeAndRemoveMean(handler, data, nt)
       IN IF supplied /\ w0 # nx * nv
          THEN \* ValueError: weights must have the size of the flattened data
               /\ pod_pc' = "raised" /\ weights' = w0
               /\ weights_name' = "supplied"
               /\ UNCHANGED <<dir_made, processed, data, fit_mean>>
          ELSE IF ~ReshapeOk(w1, <<nx * nv, 1>>)
          THEN /\ pod_pc' = "raised" /\ weights' = w1
               /\ weights_name' = IF supplied THEN "supplied" ELSE "uniform"
               /\ UNCHANGED <<dir_made, processed, data, fit_mean>>
          ELSE /\ pod_pc' = "fitted" /\ weights' = w1
               /\ weights_name' = IF supplied THEN "supplied" ELSE "uniform"
               /\ dir_made' = TRUE /\ processed' = TRUE
               /\ data' = r.source /\ fit_mean' = r.X_mean
    /\ UNCHANGED <<sessVars, mpiVars, cfgVars, blkVars, runVars, diskVars, histVars,
                   eigVars, weights_tmp, normalize_weights, handler, data0,
                   held, held0, proj_mean, added_mean, getVars>>

\* POD_standard.compute_coeffs(data, nt) on a held-out array: the array is
\* centred and projected on the saved modes; the mean removed is returned.
PodComputeCoeffs(arr) ==
    /\ pod_pc = "fitted"
    /\ LET r == ReshapeAndRemoveMean(handler, arr, nt)
       IN /\ held0' = arr /\ held' = r.source /\ proj_mean' = r.X_mean
    /\ pod_pc' = "projected"
    /\ UNCHANGED <<sessVars, mpiVars, cfgVars, blkVars, runVars, diskVars, histVars,
                   eigVars, processed, wgtVars, handler, data, data0,
                   fit_mean, added_mean, getVars>>

\* POD_standard.reconstruct_data(coeffs, phi_tilde, time_mean), called with
\* what compute_coeffs returned: time_mean is added back.
PodReconstructData ==
    /\ pod_pc = "projected"
    /\ added_mean' = proj_mean
    /\ pod_pc' = "reconstructed"
    /\ UNCHANGED <<sessVars, mpiVars, cfgVars, blkVars, runVars, diskVars, histVars,
                   eigVars, processed, wgtVars, arrVars, fit_mean, proj_mean,
                   getVars>>

\* POD_standard.transform(data, nt): compute_coeffs, then reconstruct_data
\* with the mean compute_coeffs returned.
PodTransform(arr) ==
    /\ pod_pc = "fitted"
    /\ LET r == ReshapeAndRemoveMean(handler, arr, nt)
       IN /\ held0' = arr /\ held' = r.source /\ proj_mean' = r.X_mean
          /\ added_mean' = r.X_mean
    /\ pod_pc' = "reconstructed"
    /\ UNCHANGED <<sessVars, mpiVars, cfgVars, blkVars, runVars, diskVars, histVars,
                   eigVars, processed, wgtVars, handler, data, data0,
                   fit_mean, getVars>>

NextPOD ==
    \/ PodConstruct
    \/ PodFit
    \/ \E arr \in Arrays : PodComputeCoeffs(arr)
    \/ PodReconstructData
    \/ \E arr \in Arrays : PodTransform(arr)

SpecPOD == InitPOD /\ [][NextPOD]_vars

\* C4: weights of the wrong size, in whatever container, are rejected: the
\* engine raises before any data is processed, creates no result directory
\* and substitutes no default weighting.
C4_WrongSizeWeightsRejected ==
    (pod_pc \in {"fitted", "raised"} /\ weights_tmp.kind # "none"
        /\ weights_tmp.size # nx * nv) =>
        /\ pod_pc = "raised"
        /\ ~processed /\ ~dir_made
        /\ weights_name # "uniform"

\* C11: the mean compute_coeffs removes from held-out data, and the mean
\* reconstruct_data adds back, is the mean that was removed at fit time.
C11_ProjectionUsesFitMean ==
    /\ pod_pc \in {"projected", "reconstructed"} => proj_mean = fit_mean
    /\ pod_pc = "reconstructed" => added_mean = fit_mean

\* C16: whatever has been called, every element of the arrays the caller
\* handed over (the fit data and the held-out data) has the value it had
\* when it was handed over.
C16_CallerDataUnchanged == data = data0 /\ held = held0

\* ------------------------------------------------------- the data handler
\* A fitted POD_standard object with the default data handler, and a request
\* get_data(t_0, t_end) about to be made.
InitHandler ==
    /\ nx = 1
    /\ data \in Arrays /\ data0 = data /\ nt = Len(data)
    /\ handler = "default"
    /\ held = <<>> /\ held0 = <<>>
    /\ weights_tmp = [kind |-> "none", size |-> 0]
    /\ normalize_weights = FALSE /\ weights = nx * nv
    /\ weights_name = "uniform" /\ dir_made = TRUE /\ processed = TRUE
    /\ pod_pc = "fitted"
    /\ fit_mean = Mean(data) /\ proj_mean = NoMean /\ added_mean = NoMean
    /\ t_0 \in 0..MaxT /\ t_end \in 0..MaxT /\ fetched = NoFetch
    /\ NoSession /\ NotFitted /\ IdleBlk /\ IdleEig
    /\ IdleMpi

\* POD_standard.get_data(t_0, t_end): the handler is asked for the snapshots.
PodGetData ==
    /\ pod_pc = "fitted"
    /\ fetched' = DataHandler(handler, data, t_0, t_end, nt)
    /\ pod_pc' = "fetched"
    /\ UNCHANGED <<sessVars, mpiVars, cfgVars, blkVars, runVars, diskVars, histVars,
                   eigVars, processed, wgtVars, arrVars, meanVars, t_0, t_end>>

NextHandler == PodGetData

SpecHandler == InitHandler /\ [][NextHandler]_vars

\* What a successful request for the snapshots first..last returns.
Fetched(first_t, last_t) ==
    /\ fetched.raised = "none"
    /\ fetched.idx = [i \in 1..(last_t - first_t + 1) |-> first_t + i - 1]
    /\ fetched.rows = [i \in 1..(last_t - first_t + 1) |-> data[first_t + i]]

\* C15 as stated: the default handler raises without returning data when
\* t_0 > t_end or t_0 >= nt, returns the one snapshot t_0 when t_0 = t_end,
\* and returns the snapshots t_0..t_end-1 when t_0 < t_end.
C15_DefaultHandlerCases ==
    pod_pc = "fetched" =>
        IF t_0 > t_end \/ t_0 >= nt
        THEN fetched.raised # "none" /\ fetched.rows = <<>>
        ELSE IF t_0 = t_end THEN Fetched(t_0, t_0)
        ELSE Fetched(t_0, t_end - 1)

\* C15 as amended: the same, and the handler also raises without returning
\* data when t_0 < nt < t_end: a snapshot index beyond the array.
C15_DefaultHandlerCasesInRange ==
    pod_pc = "fetched" =>
        IF t_0 > t_end \/ t_0 >= nt \/ t_end > nt
        THEN fetched.raised # "none" /\ fetched.rows = <<>>
        ELSE IF t_0 = t_end THEN Fetched(t_0, t_0)
        ELSE Fetched(t_0, t_end - 1)

C15_Witness ==
    /\ pod_pc = "fetched" /\ fetched.raised = "none"
    /\ t_0 = t_end /\ Len(fetched.rows) = 1 /\ nt >= 2

\* ------------------------------------------------------ the distributed fit
\* The positions of a rank in fit, in program order.  Standard.fit: dft (the
\* block loop, or the load of the cache), bar1 (in the barrier after it),
\* gram, allred (in the all-reduce), eig, modes (the loop saving the modes),
\* store, bar2 (in the final barrier), done.  SPOD_low_ram.fit: dft, then for
\* every frequency load, gram, allred, eig, modes, and then store, done.
Stages ==
    <<"dft", "bar1", "load", "gram", "allred", "eig", "modes", "store", "bar2",
      "done">>
Idx(st) == CHOOSE i \in 1..Len(Stages) : Stages[i] = st

\* The artifacts on the shared disk: the part of the cache entries of a block
\* written by a rank, the modes of a frequency saved by a rank, the results
\* stored by a rank.
Blk(r, b) == [kind |-> "blk", rank |-> r, idx |-> b]
Mode(r, f) == [kind |-> "mode", rank |-> r, idx |-> f]
Res(r) == [kind |-> "res", rank |-> r, idx |-> 0]

\* The frequency a rank is working on: Standard treats all frequencies in
\* one stack (index 0), SPOD_low_ram one at a time.
CurF(r) == IF engine = "standard" THEN 0 ELSE rfreq[r]

\* The Gram matrix of frequency f with the contribution of every rank.
FullM(f) == {[rank |-> q, freq |-> f] : q \in Ranks}

BarrierAbsent(st) == TRUE
\* if self._comm: self._comm.Barrier(): a rank leaves the barrier once every
\* rank has entered it.
BarrierOpen(st) == comm => \A q \in Ranks : Idx(rpc[q]) >= Idx(st)

EigInputLocal(r) == {Mloc[r]}
\* L, V = la.eig(M), M being what utils_par.allreduce returned.
EigInput(r) == Mred[r]

\* The ranks of a job about to run fit on a shared result directory, which
\* holds the complete block cache when the fit is to reuse it.
InitMPI ==
    /\ engine \in Engines /\ comm = TRUE /\ nx = 1
    /\ nt \in 1..MaxNtPar /\ n_dft \in 1..nt /\ n_overlap \in 0..(n_dft - 1)
    /\ isrealx = TRUE /\ param_n_modes_save = 1 /\ n_modes_save = 1
    /\ reuse_blocks \in BOOLEAN
    /\ savefft \in (IF engine = "standard" THEN BOOLEAN ELSE {FALSE})
    /\ fullspectrum = FALSE /\ mean_type = "longtime" /\ normalize_data = FALSE
    /\ n_blocks = NBlocks(nt, n_dft, n_overlap)
    /\ n_freq = NFreq(n_dft, fullspectrum)
    /\ blocks_present = reuse_blocks
    /\ disk = IF reuse_blocks
              THEN {Blk(r, b) : r \in Ranks, b \in 0..(n_blocks - 1)}
              ELSE {}
    /\ rpc = [r \in Ranks |->
                IF engine = "low_ram" /\ blocks_present THEN "load" ELSE "dft"]
    /\ rblk = [r \in Ranks |-> 0] /\ rfreq = [r \in Ranks |-> 0]
    /\ rfailed = [r \in Ranks |-> FALSE]
    /\ Mloc = [r \in Ranks |-> NoM]
    /\ red = [f \in 0..(n_freq - 1) |-> {}]
    /\ Mred = [r \in Ranks |-> {}] /\ eigM = [r \in Ranks |-> {}]
    /\ early = {}
    /\ pc = "idle" /\ i_blk = 0 /\ i_freq = 0
    /\ Q_hat = NoFiles /\ computed = {} /\ err = "none"
    /\ cache = NoFiles /\ modes = NoFiles
    /\ cache0 = NoFiles /\ first = NoFirst
    /\ IdleBlk /\ IdleEig /\ IdlePod

Running(r) == ~rfailed[r] /\ rpc[r] # "done"

\* What the steps of a distributed fit leave alone.
fitVars == <<sessVars, cfgVars, blkVars, runVars, diskVars, histVars, eigVars,
             podVars>>

\* Standard.fit, blocks present: the rank loads every entry of the cache.
RankLoadBlocks(r) ==
    /\ Running(r) /\ rpc[r] = "dft" /\ engine = "standard" /\ blocks_present
    /\ \A b \in 0..(n_blocks - 1), q \in Ranks : Blk(q, b) \in disk
    /\ rblk' = [rblk EXCEPT ![r] = n_blocks]
    /\ rpc' = [rpc EXCEPT ![r] = "bar1"]
    /\ UNCHANGED fitVars /\ UNCHANGED <<rfreq, rfailed, disk, Mloc, red, Mred, eigM, early>>

\* The block loop of fit: the rank computes its next block; Standard saves
\* the rank's part of it when savefft is set, SPOD_low_ram saves it on rank 0.
RankDftBlock(r) ==
    /\ Running(r) /\ rpc[r] = "dft" /\ ~blocks_present /\ rblk[r] < n_blocks
    /\ disk' = IF engine = "standard"
               THEN (IF StdSaves(savefft) THEN disk \cup {Blk(r, rblk[r])}
                     ELSE disk)
               ELSE (IF LowRamSaves(r) THEN disk \cup {Blk(0, rblk[r])}
                     ELSE disk)
    /\ rblk' = [rblk EXCEPT ![r] = rblk[r] + 1]
    /\ rpc' = [rpc EXCEPT ![r] =
                 IF rblk[r] + 1 < n_blocks THEN "dft"
                 ELSE IF engine = "standard" THEN "bar1" ELSE "load"]
    /\ UNCHANGED fitVars /\ UNCHANGED <<rfreq, rfailed, Mloc, red, Mred, eigM, early>>

\* Standard.fit: the rank leaves the barrier that follows the DFT phase.
RankBarrier1(r) ==
    /\ Running(r) /\ rpc[r] = "bar1" /\ BarrierOpen("bar1")
    /\ rpc' = [rpc EXCEPT ![r] = "gram"]
    /\ UNCHANGED fitVars /\ UNCHANGED <<rblk, rfreq, rfailed, disk, Mloc, red, Mred, eigM, early>>

\* SPOD_low_ram.fit: the rank loads the entries of its next frequency, block
\* by block.  An entry rank 0 has not finished writing is missing or
\* incomplete: the load raises, or returns what is there.
RankLoadFreq(r, raises) ==
    /\ Running(r) /\ rpc[r] = "load" /\ engine = "low_ram"
    /\ IF \A b \in 0..(n_blocks - 1) : Blk(0, b) \in disk
       THEN /\ ~raises
            /\ rpc' = [rpc EXCEPT ![r] = "gram"]
            /\ UNCHANGED fitVars /\ UNCHANGED <<rfailed, early>>
       ELSE /\ early' = early \cup {<<r, rfreq[r]>>}
            /\ rfailed' = [rfailed EXCEPT ![r] = raises]
            /\ rpc' = [rpc EXCEPT ![r] = IF raises THEN "load" ELSE "gram"]
    /\ UNCHANGED fitVars /\ UNCHANGED <<rblk, rfreq, disk, Mloc, red, Mred, eigM>>

\* _compute_standard_spod: the rank forms its contribution to M and enters
\* the all-reduce with it.
RankGram(r) ==
    /\ Running(r) /\ rpc[r] = "gram"
    /\ LET m == [rank |-> r, freq |-> CurF(r)]
       IN /\ Mloc' = [Mloc EXCEPT ![r] = m]
          /\ red' = [red EXCEPT ![CurF(r)] = red[CurF(r)] \cup {m}]
    /\ rpc' = [rpc EXCEPT ![r] = "allred"]
    /\ UNCHANGED fitVars /\ UNCHANGED <<rblk, rfreq, rfailed, disk, Mred, eigM, early>>

\* utils_par.allreduce: the rank leaves the all-reduce, with the sum of the
\* contributions, once every rank has entered it.
RankAllreduce(r) ==
    /\ Running(r) /\ rpc[r] = "allred"
    /\ \A q \in Ranks : \E m \in red[CurF(r)] : m.rank = q
    /\ Mred' = [Mred EXCEPT ![r] = red[CurF(r)]]
    /\ rpc' = [rpc EXCEPT ![r] = "eig"]
    /\ UNCHANGED fitVars /\ UNCHANGED <<rblk, rfreq, rfailed, disk, Mloc, red, eigM, early>>

\* _compute_standard_spod: the rank decomposes M.
RankEig(r) ==
    /\ Running(r) /\ rpc[r] = "eig"
    /\ eigM' = [eigM EXCEPT ![r] = EigInput(r)]
    /\ rpc' = [rpc EXCEPT ![r] = "modes"]
    /\ UNCHANGED fitVars /\ UNCHANGED <<rblk, rfreq, rfailed, disk, Mloc, red, Mred, early>>

\* _compute_standard_spod: the rank saves its slice of the modes of its next
\* frequency.
RankSaveMode(r) ==
    /\ Running(r) /\ rpc[r] = "modes"
    /\ disk' = disk \cup {Mode(r, rfreq[r])}
    /\ rfreq' = [rfreq EXCEPT ![r] = rfreq[r] + 1]
    /\ rpc' = [rpc EXCEPT ![r] =
                 IF rfreq[r] + 1 = n_freq THEN "store"
                 ELSE IF engine = "standard" THEN "modes" ELSE "load"]
    /\ UNCHANGED fitVars /\ UNCHANGED <<rblk, rfailed, Mloc, red, Mred, eigM, early>>

\* fit: _store_and_save; SPOD_low_ram.fit then returns.
RankStore(r) ==
    /\ Running(r) /\ rpc[r] = "store"
    /\ disk' = disk \cup {Res(r)}
    /\ rpc' = [rpc EXCEPT ![r] = IF engine = "standard" THEN "bar2" ELSE "done"]
    /\ UNCHANGED fitVars /\ UNCHANGED <<rblk, rfreq, rfailed, Mloc, red, Mred, eigM, early>>

\* Standard.fit: the rank leaves the final barrier and returns.
RankBarrier2(r) ==
    /\ Running(r) /\ rpc[r] = "bar2" /\ BarrierOpen("bar2")
    /\ rpc' = [rpc EXCEPT ![r] = "done"]
    /\ UNCHANGED fitVars /\ UNCHANGED <<rblk, rfreq, rfailed, disk, Mloc, red, Mred, eigM, early>>

\* An I/O operation or a collective raises on one rank: the exception leaves
\* fit on that rank; nothing in fit catches it or tells the other ranks.
RankFails(r) ==
    /\ Running(r) /\ \A q \in Ranks : ~rfailed[q]
    /\ rpc[r] \in {"dft", "bar1", "load", "allred", "modes", "store", "bar2"}
    /\ rfailed' = [rfailed EXCEPT ![r] = TRUE]
    /\ UNCHANGED fitVars /\ UNCHANGED <<rpc, rblk, rfreq, disk, Mloc, red, Mred, eigM, early>>

NextMPI ==
    \E r \in Ranks :
        \/ RankLoadBlocks(r)
        \/ RankDftBlock(r)
        \/ RankBarrier1(r)
        \/ \E raises \in BOOLEAN : RankLoadFreq(r, raises)
        \/ RankGram(r)
        \/ RankAllreduce(r)
        \/ RankEig(r)
        \/ RankSaveMode(r)
        \/ RankStore(r)
        \/ RankBarrier2(r)
        \/ RankFails(r)

SpecMPI == InitMPI /\ [][NextMPI]_vars

\* C12: a rank that is about to decompose M holds the all-reduce's result
\* with the contribution of every rank for its frequency, the all-reduce
\* having received them all; the M a rank decomposed is that same sum on
\* every rank.
C12_EigAfterAllreduce ==
    \A r \in Ranks :
        /\ rpc[r] = "eig" =>
              /\ red[CurF(r)] = FullM(CurF(r))
              /\ Mred[r] = FullM(CurF(r))
        /\ rpc[r] = "modes" => eigM[r] = FullM(CurF(r))

C12_Witness ==
    /\ engine = "standard"
    /\ \E r, q \in Ranks : rpc[r] = "modes" /\ rpc[q] = "allred"

\* C13: once an operation has failed on a rank, no artifact is persisted by
\* any rank and no rank completes fit.
C13_FailureAbortsAllRanks ==
    [][(\E q \in Ranks : rfailed[q]) =>
          /\ disk' = disk
          /\ \A r \in Ranks : rpc'[r] = "done" => rpc[r] = "done"]_vars

\* C19: in the distributed Standard.fit no rank is past the first barrier
\* (computing its Gram contribution or later) before every rank has computed
\* or loaded all n_blocks blocks, and no rank has returned from fit before
\* every rank has stored its results.
C19_BarriersSeparatePhases ==
    engine = "standard" =>
        \A r \in Ranks :
            /\ Idx(rpc[r]) >= Idx("gram") =>
                  \A q \in Ranks : rblk[q] = n_blocks
            /\ rpc[r] = "done" => \A q \in Ranks : Res(q) \in disk

C19_Witness ==
    /\ engine = "standard" /\ ~blocks_present /\ n_blocks >= 2
    /\ \E r, q \in Ranks : rpc[r] = "done" /\ rpc[q] = "bar2"

\* C20: in the low-RAM fit on several ranks no rank loads the cache entries
\* of a frequency before rank 0 has written them.
C20_NoReadBeforeWrite == early = {}

====
